---- MODULE Spec2Model ----
(***************************************************************************)
(* egui_inspect: the EguiInspect derive macro (egui_inspect_derive) and    *)
(* the rendering procedures it generates.                                  *)
(*                                                                         *)
(* The macro is a pure function from a type declaration (DeriveInput) to   *)
(* two procedures, inspect (&self) and inspect_mut (&mut self).  The       *)
(* generated token streams are modelled as data: a procedure is a sequence *)
(* of statements, a per-field render action is a record naming the         *)
(* function called, the kind of reference taken, the place referenced and  *)
(* the label passed.  The second half of the module interprets those       *)
(* statements over a live instance, one statement per step.                *)
(***************************************************************************)
EXTENDS Naturals, Sequences, FiniteSets, TLC

VARIABLES
    data,            \* the DeriveInput: the type declaration with its attributes
    pc,              \* "input" | "expanded" | "panicked": the macro expansion
    inspect,         \* generated body of fn inspect(&self, ..)
    inspect_mut,     \* generated body of fn inspect_mut(&mut self, ..)
    self,            \* the live instance the generated procedures run on
    call,            \* "none" | "inspect" | "inspect_mut": procedure in progress
    ip,              \* index of the next statement of the procedure in progress
    current_variant, \* the generated local `current_variant`
    shown,           \* tag text handed to ui.label / ComboBox::selected_text
    picked,          \* selector entry clicked in this pass ("" when none)
    branch,          \* variant whose match arm ran in this pass ("" when none)
    old              \* the instance as it was when the pass began

vars == <<data, pc, inspect, inspect_mut, self, call, ip, current_variant,
          shown, picked, branch, old>>

(***************************************************************************)
(* Bounds of the model.                                                    *)
(***************************************************************************)
MaxFields == 2

MaxRunFields == 1

MaxValue == 1

(***************************************************************************)
(* Attribute values.  Option<String> is a string, None the empty one.      *)
(***************************************************************************)
None == ""

AttributeArgsDefault ==
    [name |-> None, hide |-> FALSE, no_edit |-> FALSE,
     custom_func |-> None, custom_func_mut |-> None]

\* Strings syn::Path::from_string rejects.
MalformedPaths == {"not a path"}

DisplayNames == {None, "Count"}

ReaderPaths == {None, "my_reader", "not a path"}

WriterPaths == {None, "my_writer", "not a path"}

\* Declared field types: one the internal paths do not handle, one they do.
FieldTypes == {"Foo", "u32"}

InternalTypes == {"u32"}

(***************************************************************************)
(* Token streams.                                                          *)
(***************************************************************************)
\* quote!(): no tokens.
EmptyTs ==
    [kind |-> "empty", func |-> "", ref |-> "", base |-> "", member |-> "",
     label |-> ""]

\* Option::None returned by a handler.
NoneTs ==
    [kind |-> "none", func |-> "", ref |-> "", base |-> "", member |-> "",
     label |-> ""]

\* The expansion panicked (Result::expect on an Err).
PanicTs ==
    [kind |-> "panic", func |-> "", ref |-> "", base |-> "", member |-> "",
     label |-> ""]

\* `func(ref base member, label, ui);`
CallTs(func, ref, base, member, label) ==
    [kind |-> "call", func |-> func, ref |-> ref, base |-> base,
     member |-> member, label |-> label]

IsCall(tok) == tok.kind = "call"

\* syn::Path::from_string(s): Ok(path) spelled as s, or Err.
PathFromString(s) == IF s \in MalformedPaths THEN "Err" ELSE s

get_default_function_call(name, var, mutable) ==
    CallTs(IF mutable THEN "egui_inspect::EguiInspect::inspect_mut"
                      ELSE "egui_inspect::EguiInspect::inspect",
           IF mutable THEN "&mut" ELSE "&",
           var.base, var.member, name)

handle_custom_func(field, mutable, attrs) ==
    LET name == field.ident
        name_str == IF attrs.name # None THEN attrs.name ELSE name
    IN  IF mutable /\ ~attrs.no_edit /\ attrs.custom_func_mut # None
        THEN IF PathFromString(attrs.custom_func_mut) = "Err"
             THEN PanicTs
             ELSE CallTs(PathFromString(attrs.custom_func_mut), "&mut",
                         "self.", name, name_str)
        ELSE IF (~mutable \/ (mutable /\ attrs.no_edit))
                /\ attrs.custom_func # None
        THEN IF PathFromString(attrs.custom_func) = "Err"
             THEN PanicTs
             ELSE CallTs(PathFromString(attrs.custom_func), "&",
                         "self.", name, name_str)
        ELSE NoneTs

\* internal_paths::try_handle_internal_path (declared by `mod internal_paths`,
\* defined outside lib.rs and utils.rs).  Its call site fixes the parameters
\* (field, mutable, attrs; no use_self) and the design gives the shape: for a
\* type it knows, the value's read-only or mutable entry point with the
\* resolved display name; None for any other type.
try_handle_internal_path(field, mutable, attrs) ==
    LET name_str == IF attrs.name # None THEN attrs.name ELSE field.ident
    IN  IF field.ty \in InternalTypes
        THEN CallTs(IF mutable THEN "egui_inspect::InspectNumber::inspect_mut"
                               ELSE "egui_inspect::InspectNumber::inspect",
                    IF mutable THEN "&mut" ELSE "&",
                    "self.", field.ident, name_str)
        ELSE NoneTs

inspect_named_fields(fields, use_self, mutable) ==
    [i \in 1..Len(fields) |->
        LET f == fields[i]
            attr == f.attr
            m == mutable /\ ~attr.no_edit
            custom == handle_custom_func(f, m, attr)
            internal == try_handle_internal_path(f, m, attr)
            name_str == IF attr.name # None THEN attr.name ELSE f.ident
            var == IF use_self
                   THEN [base |-> "self.", member |-> f.ident]
                   ELSE [base |-> "*", member |-> f.ident]
        IN  IF attr.hide THEN EmptyTs
            ELSE IF custom # NoneTs THEN custom
            ELSE IF internal # NoneTs THEN internal
            ELSE get_default_function_call(name_str, var, m)]

inspect_unnamed_fields(fields, use_self, mutable) ==
    [i \in 1..Len(fields) |->
        LET tuple_index == ToString(i - 1)
            name == "Field " \o ToString(i - 1)
            var == IF use_self
                   THEN [base |-> "self.", member |-> tuple_index]
                   ELSE [base |-> "*", member |-> "__field" \o tuple_index]
        IN  get_default_function_call(name, var, mutable)]

inspect_fields(fields, use_self, mutable) ==
    IF fields.shape = "Named"
    THEN inspect_named_fields(fields.list, use_self, mutable)
    ELSE IF fields.shape = "Unnamed"
    THEN inspect_unnamed_fields(fields.list, use_self, mutable)
    ELSE <<>>

(***************************************************************************)
(* Statements of a generated procedure.                                    *)
(***************************************************************************)
Stmt(op, name_arms, opts, arms, body) ==
    [op |-> op, name_arms |-> name_arms, opts |-> opts, arms |-> arms,
     body |-> body]

\* `ui.strong(label);`
StrongStmt == Stmt("strong", <<>>, <<>>, <<>>, <<>>)

\* unimplemented!(..): the expansion panics.
PanicStmt == Stmt("panic", <<>>, <<>>, <<>>, <<>>)

\* A name arm that stringifies the type's name instead of the variant's.
variant_name_arm_type_name(variant, struct_name) ==
    [path |-> struct_name \o "::" \o variant.ident,
     variant |-> variant.ident,
     shape |-> variant.fields.shape,
     text |-> struct_name]

variant_name_arm(variant, struct_name) ==
    [path |-> struct_name \o "::" \o variant.ident,
     variant |-> variant.ident,
     shape |-> variant.fields.shape,
     text |-> variant.ident]

variant_combo(variant, struct_name) ==
    [path |-> struct_name \o "::" \o variant.ident,
     variant |-> variant.ident,
     shape |-> variant.fields.shape,
     inits |-> [i \in 1..Len(variant.fields.list) |->
                  [member |-> IF variant.fields.shape = "Named"
                              THEN variant.fields.list[i].ident ELSE "",
                   expr |-> "Default::default()"]],
     text |-> variant.ident]

variant_inspect_arm(variant, struct_name, mutable) ==
    [path |-> struct_name \o "::" \o variant.ident,
     variant |-> variant.ident,
     shape |-> variant.fields.shape,
     bindings |-> [i \in 1..Len(variant.fields.list) |->
                     IF variant.fields.shape = "Named"
                     THEN variant.fields.list[i].ident
                     ELSE "__field" \o ToString(i - 1)],
     body |-> inspect_fields(variant.fields, FALSE, mutable)]

inspect_enum(data_enum, name, mutable) ==
    LET variants == data_enum.variants
        name_arms == [k \in 1..Len(variants) |->
                        variant_name_arm(variants[k], name)]
        reflect_variant_name ==
            Stmt("let current_variant", name_arms, <<>>, <<>>, <<>>)
        combo_opts == [k \in 1..Len(variants) |->
                         variant_combo(variants[k], name)]
        combo == IF mutable
                 THEN Stmt("combo", <<>>, combo_opts, <<>>, <<>>)
                 ELSE Stmt("label", <<>>, <<>>, <<>>, <<>>)
        inspect_arms == [k \in 1..Len(variants) |->
                           variant_inspect_arm(variants[k], name, mutable)]
    IN  << reflect_variant_name,
           StrongStmt,
           combo,
           Stmt("match", <<>>, <<>>, inspect_arms, <<>>) >>

inspect_data(d, name, mutable) ==
    IF d.kind = "Struct"
    THEN << StrongStmt,
            Stmt("fields", <<>>, <<>>, <<>>,
                 inspect_fields(d.fields, TRUE, mutable)) >>
    ELSE IF d.kind = "Enum"
    THEN inspect_enum(d, name, mutable)
    ELSE << PanicStmt >>

\* Whether producing the statements panicked somewhere.
Panicked(stmts) ==
    \E s \in 1..Len(stmts) :
        \/ stmts[s].op = "panic"
        \/ \E i \in 1..Len(stmts[s].body) : stmts[s].body[i] = PanicTs
        \/ \E a \in 1..Len(stmts[s].arms) :
              \E i \in 1..Len(stmts[s].arms[a].body) :
                  stmts[s].arms[a].body[i] = PanicTs

(***************************************************************************)
(* Type declarations handed to the macro.                                  *)
(***************************************************************************)
UnitFields == [shape |-> "Unit", list |-> <<>>]

FieldIdent(i) == "f" \o ToString(i)

VariantIdent(k) == "V" \o ToString(k)

Shapes == {"Named", "Unnamed", "Unit"}

\* The fields of one struct or variant: n fields of one shape, the i-th with
\* attributes a[i] and declared type t[i].
FieldsOf(shape, n, a, t) ==
    IF shape = "Unit" THEN UnitFields
    ELSE [shape |-> shape,
          list |-> [i \in 1..n |->
                      [ident |-> IF shape = "Named" THEN FieldIdent(i) ELSE "",
                       ty |-> t[i], attr |-> a[i]]]]

StructOf(fields) ==
    [kind |-> "Struct", name |-> "MyStruct", fields |-> fields,
     variants |-> <<>>]

EnumOf(payloads) ==
    [kind |-> "Enum", name |-> "MyEnum", fields |-> UnitFields,
     variants |-> [k \in 1..Len(payloads) |->
                     [ident |-> VariantIdent(k), fields |-> payloads[k]]]]

UnionData ==
    [kind |-> "Union", name |-> "MyUnion", fields |-> UnitFields,
     variants |-> <<>>]

\* Every attribute combination the claims distinguish.
GenAttrs ==
    [name : DisplayNames, hide : BOOLEAN, no_edit : BOOLEAN,
     custom_func : ReaderPaths, custom_func_mut : WriterPaths]

\* Inputs of the generator: structs of every shape, enums of one variant of
\* every shape (the arms of an enum are produced variant by variant), a union.
TypeOf(kind, fields) ==
    IF kind = "Struct" THEN StructOf(fields)
    ELSE IF kind = "Enum" THEN EnumOf(<<fields>>)
    ELSE UnionData

NoInstance == [variant |-> "", payload |-> <<>>]

(***************************************************************************)
(* The macro expansion.                                                    *)
(***************************************************************************)
derive_egui_inspect ==
    /\ pc = "input"
    /\ LET name == data.name
           i == inspect_data(data, name, FALSE)
           im == inspect_data(data, name, TRUE)
       IN  IF Panicked(i) \/ Panicked(im)
           THEN /\ pc' = "panicked"
                /\ UNCHANGED <<inspect, inspect_mut>>
           ELSE /\ pc' = "expanded"
                /\ inspect' = i
                /\ inspect_mut' = im
    /\ UNCHANGED <<data, self, call, ip, current_variant, shown, picked,
                   branch, old>>

Init ==
    /\ \E kind \in {"Struct", "Enum", "Union"}, shape \in Shapes,
          n \in 0..MaxFields :
          \E a \in [1..n -> GenAttrs], t \in [1..n -> FieldTypes] :
              data = TypeOf(kind, FieldsOf(shape, n, a, t))
    /\ pc = "input"
    /\ inspect = <<>>
    /\ inspect_mut = <<>>
    /\ self = NoInstance
    /\ call = "none"
    /\ ip = 0
    /\ current_variant = ""
    /\ shown = ""
    /\ picked = ""
    /\ branch = ""
    /\ old = NoInstance

Next == derive_egui_inspect

Spec == Init /\ [][Next]_vars

(***************************************************************************)
(* Running the generated procedures on a live instance.                    *)
(***************************************************************************)
Values == 0..MaxValue

\* Default::default() of a payload field.
DefaultValue == 0

\* Attributes of the fields of the types that are run.
RunAttrs ==
    { [AttributeArgsDefault EXCEPT !.hide = h, !.no_edit = e] :
      h \in BOOLEAN, e \in BOOLEAN }

\* The fields of the variant (or of the struct) an instance is of.
FieldsOfInstance(inst) ==
    IF data.kind = "Struct" THEN data.fields
    ELSE (CHOOSE v \in { data.variants[k] : k \in 1..Len(data.variants) } :
              v.ident = inst.variant).fields

Instances(d) ==
    IF d.kind = "Struct"
    THEN { [variant |-> d.name, payload |-> p] :
           p \in [1..Len(d.fields.list) -> Values] }
    ELSE UNION { { [variant |-> d.variants[k].ident, payload |-> p] :
                   p \in [1..Len(d.variants[k].fields.list) -> Values] } :
                 k \in 1..Len(d.variants) }

\* Position of name m in a sequence of names, 0 when it is not there.
Position(names, m) ==
    IF \E i \in 1..Len(names) : names[i] = m
    THEN CHOOSE i \in 1..Len(names) : names[i] = m
    ELSE 0

\* How self.<member> is spelled for each field of a struct.
StructMembers(fields) ==
    [i \in 1..Len(fields.list) |->
        IF fields.shape = "Named" THEN fields.list[i].ident
        ELSE ToString(i - 1)]

\* The payload position a render action's place denotes: self.<member> is a
\* field of a struct (an enum has none), *<name> a binding of the arm's
\* pattern.  0 when the place does not exist.
Resolve(tok, bindings) ==
    IF tok.base = "self."
    THEN IF data.kind = "Struct"
         THEN Position(StructMembers(data.fields), tok.member)
         ELSE 0
    ELSE Position(bindings, tok.member)

\* Every place the procedure names exists: the expansion is accepted by the
\* compiler.
Compiles(stmts) ==
    \A s \in 1..Len(stmts) :
        /\ \A i \in 1..Len(stmts[s].body) :
              IsCall(stmts[s].body[i]) =>
                  Resolve(stmts[s].body[i], <<>>) # 0
        /\ \A a \in 1..Len(stmts[s].arms) :
              \A i \in 1..Len(stmts[s].arms[a].body) :
                  IsCall(stmts[s].arms[a].body[i]) =>
                      Resolve(stmts[s].arms[a].body[i],
                              stmts[s].arms[a].bindings) # 0

\* The payloads a sequence of render actions may leave behind: an action
\* given `&mut place` may store any value there, one given `&place` none.
ExecBody(body, bindings, payload) ==
    { p \in [1..Len(payload) -> Values] :
        \A i \in 1..Len(payload) :
            p[i] # payload[i] =>
                \E j \in 1..Len(body) :
                    /\ IsCall(body[j])
                    /\ body[j].ref = "&mut"
                    /\ Resolve(body[j], bindings) = i }

\* The value a selector entry constructs: every init is Default::default().
Construct(opt) ==
    [variant |-> opt.variant,
     payload |-> [i \in 1..Len(opt.inits) |-> DefaultValue]]

\* A selector that switches only when the clicked variant differs from the
\* current one.
selectable_value_by_tag(current, selected) ==
    IF current.variant # selected.variant THEN selected ELSE current

\* egui's Ui::selectable_value on a click: store the entry's value unless the
\* current value already equals it.
selectable_value(current, selected) ==
    IF current # selected THEN selected ELSE current

Program == IF call = "inspect" THEN inspect ELSE inspect_mut

Running == call # "none" /\ ip \in 1..Len(Program)

\* The caller's frame callback invokes one of the two procedures.
call_inspect ==
    /\ pc = "expanded" /\ call = "none" /\ Compiles(inspect)
    /\ call' = "inspect" /\ ip' = 1 /\ old' = self
    /\ UNCHANGED <<data, pc, inspect, inspect_mut, self, current_variant,
                   shown, picked, branch>>

call_inspect_mut ==
    /\ pc = "expanded" /\ call = "none" /\ Compiles(inspect_mut)
    /\ call' = "inspect_mut" /\ ip' = 1 /\ old' = self
    /\ UNCHANGED <<data, pc, inspect, inspect_mut, self, current_variant,
                   shown, picked, branch>>

\* let current_variant = match self { .. };
ExecLetCurrentVariant ==
    /\ Running /\ Program[ip].op = "let current_variant"
    /\ LET arms == Program[ip].name_arms
           k == CHOOSE k \in 1..Len(arms) : arms[k].variant = self.variant
       IN  current_variant' = arms[k].text
    /\ ip' = ip + 1
    /\ UNCHANGED <<data, pc, inspect, inspect_mut, self, call, shown, picked,
                   branch, old>>

\* ui.strong(label);
ExecStrong ==
    /\ Running /\ Program[ip].op = "strong"
    /\ ip' = ip + 1
    /\ UNCHANGED <<data, pc, inspect, inspect_mut, self, call,
                   current_variant, shown, picked, branch, old>>

\* ui.label(current_variant);
ExecLabel ==
    /\ Running /\ Program[ip].op = "label"
    /\ shown' = current_variant
    /\ ip' = ip + 1
    /\ UNCHANGED <<data, pc, inspect, inspect_mut, self, call,
                   current_variant, picked, branch, old>>

\* The ComboBox: selected_text(current_variant), then one selectable_value
\* per variant, of which the user clicks at most one in a frame.
ExecCombo ==
    /\ Running /\ Program[ip].op = "combo"
    /\ shown' = current_variant
    /\ \E click \in 0..Len(Program[ip].opts) :
          IF click = 0
          THEN UNCHANGED <<self, picked>>
          ELSE /\ self' = selectable_value(self,
                              Construct(Program[ip].opts[click]))
               /\ picked' = Program[ip].opts[click].text
    /\ ip' = ip + 1
    /\ UNCHANGED <<data, pc, inspect, inspect_mut, call, current_variant,
                   branch, old>>

\* match self { .. }: the arm of the variant self now is runs its body.
ExecMatch ==
    /\ Running /\ Program[ip].op = "match"
    /\ LET arms == Program[ip].arms
           k == CHOOSE k \in 1..Len(arms) : arms[k].variant = self.variant
       IN  /\ branch' = arms[k].variant
           /\ \E p \in ExecBody(arms[k].body, arms[k].bindings, self.payload) :
                 self' = [self EXCEPT !.payload = p]
    /\ ip' = ip + 1
    /\ UNCHANGED <<data, pc, inspect, inspect_mut, call, current_variant,
                   shown, picked, old>>

\* The render actions of a struct's fields.
ExecFields ==
    /\ Running /\ Program[ip].op = "fields"
    /\ \E p \in ExecBody(Program[ip].body, <<>>, self.payload) :
          self' = [self EXCEPT !.payload = p]
    /\ ip' = ip + 1
    /\ UNCHANGED <<data, pc, inspect, inspect_mut, call, current_variant,
                   shown, picked, branch, old>>

\* The procedure returns to the frame callback.
Return ==
    /\ call # "none" /\ ip = Len(Program) + 1
    /\ call' = "none" /\ ip' = 0
    /\ current_variant' = "" /\ shown' = "" /\ picked' = "" /\ branch' = ""
    /\ old' = NoInstance
    /\ UNCHANGED <<data, pc, inspect, inspect_mut, self>>

\* The types that are run: structs of either shape, and enums shaped like the
\* example's MyEnum (a unit, a named and a positional variant), their fields
\* carrying any of RunAttrs; the instance is any value of the type.
RunTypeOf(kind, named, unnamed) ==
    IF kind = "Struct-named" THEN StructOf(named)
    ELSE IF kind = "Struct-unnamed" THEN StructOf(unnamed)
    ELSE EnumOf(<<UnitFields, named, unnamed>>)

InitRun ==
    /\ \E kind \in {"Struct-named", "Struct-unnamed", "Enum"},
          n1 \in 1..MaxRunFields, n2 \in 1..MaxRunFields :
          \E a1 \in [1..n1 -> RunAttrs], a2 \in [1..n2 -> RunAttrs] :
              data = RunTypeOf(kind,
                         FieldsOf("Named", n1, a1, [i \in 1..n1 |-> "Foo"]),
                         FieldsOf("Unnamed", n2, a2, [i \in 1..n2 |-> "Foo"]))
    /\ self \in Instances(data)
    /\ pc = "input"
    /\ inspect = <<>>
    /\ inspect_mut = <<>>
    /\ call = "none"
    /\ ip = 0
    /\ current_variant = ""
    /\ shown = ""
    /\ picked = ""
    /\ branch = ""
    /\ old = NoInstance

NextRun ==
    \/ derive_egui_inspect
    \/ call_inspect
    \/ call_inspect_mut
    \/ ExecLetCurrentVariant
    \/ ExecStrong
    \/ ExecLabel
    \/ ExecCombo
    \/ ExecMatch
    \/ ExecFields
    \/ Return

SpecRun == InitRun /\ [][NextRun]_vars

(***************************************************************************)
(* Properties of the generated procedures.                                 *)
(***************************************************************************)
\* The field lists the macro walked, each with the render actions it emitted
\* for them in inspect (ro) and in inspect_mut (rw).
Sites ==
    IF pc # "expanded" THEN {}
    ELSE IF data.kind = "Struct"
    THEN { [fields |-> data.fields, use_self |-> TRUE,
            ro |-> inspect[2].body, rw |-> inspect_mut[2].body] }
    ELSE { [fields |-> data.variants[k].fields, use_self |-> FALSE,
            ro |-> inspect[4].arms[k].body,
            rw |-> inspect_mut[4].arms[k].body] :
           k \in 1..Len(data.variants) }

\* The place of the i-th field of a list: self.<ident> or self.<index> in a
\* struct, the binding of the variant's pattern in an enum.
FieldPlace(fields, i, use_self) ==
    IF fields.shape = "Named"
    THEN [base |-> IF use_self THEN "self." ELSE "*",
          member |-> fields.list[i].ident]
    ELSE IF use_self
    THEN [base |-> "self.", member |-> ToString(i - 1)]
    ELSE [base |-> "*", member |-> "__field" \o ToString(i - 1)]

\* Some action of body is about the i-th field.
Renders(body, fields, i, use_self) ==
    \E j \in 1..Len(body) :
        /\ IsCall(body[j])
        /\ body[j].member = FieldPlace(fields, i, use_self).member

StandardFuncs ==
    {"egui_inspect::EguiInspect::inspect",
     "egui_inspect::EguiInspect::inspect_mut",
     "egui_inspect::InspectNumber::inspect",
     "egui_inspect::InspectNumber::inspect_mut"}

\* The fields the declaration carries, over the struct or all variants.
DeclaredFields ==
    IF data.kind = "Struct"
    THEN { data.fields.list[i] : i \in 1..Len(data.fields.list) }
    ELSE UNION { { data.variants[k].fields.list[i] :
                     i \in 1..Len(data.variants[k].fields.list) } :
                 k \in 1..Len(data.variants) }

HasMalformedReference ==
    \E f \in DeclaredFields :
        \/ f.attr.custom_func \in MalformedPaths
        \/ f.attr.custom_func_mut \in MalformedPaths

\* C1: a field configured hide is rendered by neither procedure, in a struct
\* or a variant payload, named or positional, whatever its other options.
C1_HiddenNeverRendered ==
    \A s \in Sites : \A i \in 1..Len(s.fields.list) :
        s.fields.list[i].attr.hide =>
            /\ ~Renders(s.ro, s.fields, i, s.use_self)
            /\ ~Renders(s.rw, s.fields, i, s.use_self)

\* The function the precedence rule selects for a field in one mode.
Selected(attr, mutable, tok) ==
    IF mutable /\ ~attr.no_edit /\ attr.custom_func_mut # None
    THEN tok.func = attr.custom_func_mut
    ELSE IF (~mutable \/ attr.no_edit) /\ attr.custom_func # None
    THEN tok.func = attr.custom_func
    ELSE tok.func \in StandardFuncs

\* C2: every rendered field is rendered, in each mode, by the function the
\* precedence rule selects: custom writer, else custom reader, else the
\* standard dispatch (stated for types whose references are all well formed).
C2_CustomPrecedence ==
    \A s \in Sites : \A i \in 1..Len(s.fields.list) :
        LET attr == s.fields.list[i].attr
        IN  (~attr.hide /\ ~HasMalformedReference) =>
              /\ IsCall(s.ro[i]) /\ Selected(attr, FALSE, s.ro[i])
              /\ IsCall(s.rw[i]) /\ Selected(attr, TRUE, s.rw[i])

\* C3: a field configured no_edit gets, in inspect_mut, the very action it
\* gets in inspect (same function, same reference, same label).
C3_NoEditSameAction ==
    \A s \in Sites : \A i \in 1..Len(s.fields.list) :
        (s.fields.list[i].attr.no_edit /\ ~HasMalformedReference) =>
            s.rw[i] = s.ro[i]

\* The members the call actions of a body reference, in order.
RenderedMembers(body) ==
    LET calls == SelectSeq(body, IsCall)
    IN  [j \in 1..Len(calls) |-> calls[j].member]

NotHidden(e) == ~e.hide

\* The members of the fields not configured hide, in declaration order.
VisibleMembers(fields, use_self) ==
    LET all == [i \in 1..Len(fields.list) |->
                  [member |-> FieldPlace(fields, i, use_self).member,
                   hide |-> fields.list[i].attr.hide]]
        kept == SelectSeq(all, NotHidden)
    IN  [j \in 1..Len(kept) |-> kept[j].member]

\* C5: in each mode the rendered fields are exactly the fields not configured
\* hide, each once, in declaration order.
C5_DeclarationOrder ==
    \A s \in Sites :
        /\ RenderedMembers(s.ro) = VisibleMembers(s.fields, s.use_self)
        /\ RenderedMembers(s.rw) = VisibleMembers(s.fields, s.use_self)

\* C7: the label of a rendered field is its configured name when there is
\* one, else the declared name (named) or "Field i" (positional).
C7_Labels ==
    \A s \in Sites : \A i \in 1..Len(s.fields.list) :
        LET f == s.fields.list[i]
            want == IF f.attr.name # None THEN f.attr.name
                    ELSE IF s.fields.shape = "Named" THEN f.ident
                    ELSE "Field " \o ToString(i - 1)
        IN  /\ IsCall(s.ro[i]) => s.ro[i].label = want
            /\ IsCall(s.rw[i]) => s.rw[i].label = want

\* C8: a type with a malformed custom_func or custom_func_mut on any field
\* is never expanded: the expansion fails, whatever the field's other options.
C8_MalformedFails == HasMalformedReference => pc # "expanded"

\* C9: a custom function is handed the place the standard dispatch accesses
\* for that field: self.<field> in a struct, the pattern's binding in a
\* variant.
C9_CustomPlace ==
    \A s \in Sites : \A i \in 1..Len(s.fields.list) :
        /\ (IsCall(s.ro[i]) /\ s.ro[i].func \notin StandardFuncs) =>
              [base |-> s.ro[i].base, member |-> s.ro[i].member]
                  = FieldPlace(s.fields, i, s.use_self)
        /\ (IsCall(s.rw[i]) /\ s.rw[i].func \notin StandardFuncs) =>
              [base |-> s.rw[i].base, member |-> s.rw[i].member]
                  = FieldPlace(s.fields, i, s.use_self)

(***************************************************************************)
(* Properties of a rendering pass.                                         *)
(***************************************************************************)
AllDefault(inst) ==
    \A i \in 1..Len(inst.payload) : inst.payload[i] = DefaultValue

\* C4: once an entry B of the selector is clicked, the instance is variant B
\* with every payload field at its default, whatever it held before.
C4_SelectResetsToDefault ==
    (call = "inspect_mut" /\ picked # "") =>
        \/ branch # ""
        \/ /\ \E k \in 1..Len(data.variants) :
                 /\ data.variants[k].ident = picked
                 /\ self.variant = picked
                 /\ Len(self.payload) = Len(data.variants[k].fields.list)
           /\ AllDefault(self)

\* An entry naming the variant the instance already is was clicked while the
\* payload held a value other than the default, and the match has not run.
C4_Witness ==
    /\ call = "inspect_mut" /\ picked # "" /\ branch = ""
    /\ picked = old.variant
    /\ ~AllDefault(old)

\* C6: during inspect_mut a field configured hide or no_edit keeps the value
\* it had when the pass began, as long as the instance stays the same variant.
C6_ProtectedFieldsKept ==
    (call = "inspect_mut" /\ self.variant = old.variant) =>
        \A i \in 1..Len(self.payload) :
            LET attr == FieldsOfInstance(self).list[i].attr
            IN  (attr.hide \/ attr.no_edit) => self.payload[i] = old.payload[i]

\* C10: in every pass over an enum the tag text shown names the variant whose
\* arm runs later in that pass.
C10_ShownIsBranch == branch # "" => branch = shown

\* C10, amended: the text shown names the variant the instance was when the
\* pass began; the arm that runs is the clicked entry's when one was clicked
\* and the shown variant's otherwise.
C10_ShownIsBranchUnlessPicked ==
    branch # "" =>
        /\ shown = old.variant
        /\ branch = IF picked # "" THEN picked ELSE shown

\* A pass in which an entry other than the shown one was clicked has run its
\* arm.
C10_Witness == branch # "" /\ picked # "" /\ picked # shown

====
